---------------------------- MODULE Spec2Model ----------------------------
(***************************************************************************)
(* A model of the three-body-problem simulation: Position, MotionVector,   *)
(* Body and BodyCollection (src/bodies.js, src/unnamed/part_000) and the   *)
(* Animator that drives them (src/unnamed/part_001).                       *)
(*                                                                         *)
(* Numbers.  A JavaScript number is modelled as a pair <<n, d>>: the exact *)
(* rational n/d in lowest terms with d > 0, or, with d = 0, one of the     *)
(* IEEE-754 specials the code can produce: <<1,0>> is Infinity, <<-1,0>>   *)
(* is -Infinity and <<0,0>> is NaN.  Rounding of finite results and the    *)
(* sign of zero are not modelled.                                          *)
(*                                                                         *)
(* Asynchrony.  Every method of the code marked async is modelled at the   *)
(* granularity of its awaits: a call runs synchronously up to its first    *)
(* await, and each continuation after an await is one job of the microtask *)
(* queue, which is first-in first-out.  Calls made from outside (the       *)
(* client's calls, a frame callback) are macrotasks: they run only when    *)
(* the microtask queue is empty.                                           *)
(***************************************************************************)
EXTENDS Integers, Sequences, FiniteSets, TLC

VARIABLES
    bodies,   \* BodyCollection.bodies: the sequence of Body records
    speed,    \* Animator.speed
    tasks,    \* the updateSimulation() calls of the current tick, by number
    queue,    \* the microtask queue: task numbers, 0 for an adjustPosition continuation
    tick,     \* history: the bodies and the speed when calculate() was last entered,
              \* until the next call from outside
    steps,    \* history: the number of updateSimulation() calls made so far
    last,     \* the outcome of the last call made from outside: what it returned or threw
    isRunning, \* Animator.isRunning
    frame,    \* Animator.frame: the handle start() got from requestAnimationFrame
    callbacks, \* the browser's animation frame callbacks still to run: their handles
    handle    \* the handle requestAnimationFrame returned last

vars == <<bodies, speed, tasks, queue, tick, steps, last, isRunning, frame, callbacks, handle>>

\* the part of the state that only start(), stop(), toggle() and loop() write
animation == <<isRunning, frame, callbacks, handle>>

----------------------------------------------------------------------------
(* Bounds of the model *)

MaxBodies == 2     \* bodies in a simulated collection (Spec)
MaxTrailBodies == 1 \* bodies whose trails are followed (SpecTrail)
MaxSpeed == 2      \* largest value given to Animator.speed
MaxSteps == 3      \* updateSimulation() calls in one behaviour
MaxNumerator == 40  \* a tick starts only from finite coordinates n/d with |n| <= this
MaxDenominator == 2 \* and d <= this
MaxRequests == 4    \* requestAnimationFrame() calls in one behaviour

(* Program constants *)

MAX_BODIES == 10
MAX_TRAIL_LENGTH == 100000
COLOR_OPTIONS_LENGTH == 15   \* Body.colorOptions.length
DEFAULT_TRAIL_THICKNESS == 2 \* trailThickness of a new Body

----------------------------------------------------------------------------
(* Numbers *)

Abs(n) == IF n < 0 THEN -n ELSE n

Sign(n) == IF n > 0 THEN 1 ELSE IF n < 0 THEN -1 ELSE 0

RECURSIVE GCD(_, _)
GCD(a, b) == IF b = 0 THEN a ELSE GCD(b, a % b)

Norm(n, d) ==
    IF d = 0 THEN <<Sign(n), 0>>
    ELSE LET g == GCD(Abs(n), d) IN <<n \div g, d \div g>>

Num(k) == <<k, 1>>
Zero == <<0, 1>>
One == <<1, 1>>
Half == <<1, 2>>
NaN == <<0, 0>>
Infinity == <<1, 0>>

IsFinite(a) == a[2] # 0

\* a + b
Add(a, b) ==
    IF a[2] = 0 \/ b[2] = 0
    THEN IF a = NaN \/ b = NaN THEN NaN
         ELSE IF a[2] = 0 /\ b[2] = 0 THEN (IF a = b THEN a ELSE NaN)
         ELSE IF a[2] = 0 THEN a ELSE b
    ELSE LET g == GCD(a[2], b[2])
         IN  Norm(a[1] * (b[2] \div g) + b[1] * (a[2] \div g), (a[2] \div g) * b[2])

Neg(a) == <<-a[1], a[2]>>

\* a - b
Sub(a, b) == Add(a, Neg(b))

\* a * b
Mul(a, b) ==
    IF a[2] = 0 \/ b[2] = 0
    THEN <<Sign(a[1]) * Sign(b[1]), 0>>
    ELSE LET g1 == GCD(Abs(a[1]), b[2])
             g2 == GCD(Abs(b[1]), a[2])
         IN  Norm((a[1] \div g1) * (b[1] \div g2), (a[2] \div g2) * (b[2] \div g1))

\* 1 / b
Recip(b) ==
    IF b[1] > 0 THEN <<b[2], b[1]>>
    ELSE IF b[1] < 0 THEN <<-b[2], -b[1]>>
    ELSE IF b[2] > 0 THEN Infinity ELSE NaN

\* a / b
Div(a, b) == Mul(a, Recip(b))

\* a < b
Less(a, b) ==
    IF a = NaN \/ b = NaN THEN FALSE
    ELSE IF a[2] # 0 /\ b[2] # 0 THEN a[1] * b[2] < b[1] * a[2]
    ELSE IF a[2] = 0 /\ b[2] = 0 THEN a[1] < b[1]
    ELSE IF a[2] = 0 THEN a[1] < 0 ELSE b[1] > 0

\* a <= b
LessEq(a, b) == Less(a, b) \/ (a # NaN /\ a = b)

\* Math.sqrt(a), kept symbolic: the value whose square is a
Sqrt(a) == [sqrtOf |-> a]

\* r * r for r = Math.sqrt(a)
Square(r) == r.sqrtOf

----------------------------------------------------------------------------
(* Position and MotionVector: src/unnamed/part_000 *)

Vec(x, y) == [x |-> x, y |-> y]

\* Position.difference with its operands the other way round: this - position
DifferenceReversed(a, b) == Vec(Sub(a.x, b.x), Sub(a.y, b.y))

\* Position.difference: this = a, position = b
Difference(a, b) == Vec(Sub(b.x, a.x), Sub(b.y, a.y))

\* Position.distance taking the norm of the sum of the two positions
DistanceOfSum(a, b) ==
    LET p == Vec(Add(b.x, a.x), Add(b.y, a.y))
    IN  Sqrt(Add(Mul(p.x, p.x), Mul(p.y, p.y)))

\* Position.distance
Distance(a, b) ==
    LET p == Difference(a, b)
    IN  Sqrt(Add(Mul(p.x, p.x), Mul(p.y, p.y)))

\* Position.addVector
AddVector(pos, vector) == Vec(Add(pos.x, vector.x), Add(pos.y, vector.y))

\* MotionVector.addCoords
AddCoords(mom, x, y) == Vec(Add(mom.x, x), Add(mom.y, y))

\* Position.exportCoordinates
ExportCoordinates(pos) == <<pos.x, pos.y>>

----------------------------------------------------------------------------
(* Body: src/bodies.js *)

ZeroVec == Vec(Zero, Zero)

\* new Body(mass, position, momentum), without its presentation attributes
NewBody(mass, position, momentum) ==
    [mass |-> mass, position |-> position, momentum |-> momentum,
     trailLength |-> 0, trail |-> <<>>]

\* new Body(mass, position, momentum) with its presentation attributes, color
\* being what Math.floor(Math.random() * Body.colorOptions.length) gave
NewBodyPainted(mass, position, momentum, color) ==
    [mass |-> mass, position |-> position, momentum |-> momentum,
     trailLength |-> 0, trail |-> <<>>,
     colorIndex |-> color, trailThickness |-> Num(DEFAULT_TRAIL_THICKNESS)]

\* get radius
Radius(b) == Mul(b.mass, Num(10))

\* gravCoeff weighing the attraction by the mass of this body alone
CoeffOwnMass(massA, massB, radius) == Mul(Div(Mul(massA, massA), Square(radius)), Half)

\* the arithmetic of Body.gravCoeff once the distance is known
Coeff(massA, massB, radius) == Mul(Div(Mul(massA, massB), Square(radius)), Half)

\* Body.gravCoeff: this = a, body = b
GravCoeff(a, b) == Coeff(a.mass, b.mass, Distance(a.position, b.position))

\* Body.adjustVector: this = a, body = b
AdjustVector(a, b) ==
    LET c == GravCoeff(a, b)
        posDiff == Difference(a.position, b.position)
    IN  [a EXCEPT !.momentum = AddCoords(a.momentum, Mul(c, posDiff.x), Mul(c, posDiff.y))]

\* Body.adjustPosition without the splice that trims the trail
AdjustPositionNoSplice(b) ==
    LET pushed == IF b.trailLength # 0 /\ b.trailLength >= Len(b.trail)
                  THEN Append(b.trail, ExportCoordinates(b.position))
                  ELSE b.trail
    IN  [b EXCEPT !.trail = pushed, !.position = AddVector(b.position, b.momentum)]

\* Body.adjustPosition pushing only while the trail is shorter than trailLength
AdjustPositionStrict(b) ==
    LET pushed == IF b.trailLength # 0 /\ b.trailLength > Len(b.trail)
                  THEN Append(b.trail, ExportCoordinates(b.position))
                  ELSE b.trail
        spliced == IF Len(pushed) > b.trailLength
                   THEN SubSeq(pushed, Len(pushed) - b.trailLength + 1, Len(pushed))
                   ELSE pushed
    IN  [b EXCEPT !.trail = spliced, !.position = AddVector(b.position, b.momentum)]

\* Body.adjustPosition pushing the position object itself, not a copy of its
\* coordinates: every entry kept is the one object addVector then moves
AdjustPositionByReference(b) ==
    LET pushed == IF b.trailLength # 0 /\ b.trailLength >= Len(b.trail)
                  THEN Append(b.trail, ExportCoordinates(b.position))
                  ELSE b.trail
        spliced == IF Len(pushed) > b.trailLength
                   THEN SubSeq(pushed, Len(pushed) - b.trailLength + 1, Len(pushed))
                   ELSE pushed
        moved == AddVector(b.position, b.momentum)
    IN  [b EXCEPT !.trail = [e \in 1..Len(spliced) |-> ExportCoordinates(moved)],
                  !.position = moved]

\* Body.adjustPosition, up to its await: the trail, then the position
AdjustPosition(b) ==
    LET pushed == IF b.trailLength # 0 /\ b.trailLength >= Len(b.trail)
                  THEN Append(b.trail, ExportCoordinates(b.position))
                  ELSE b.trail
        spliced == IF Len(pushed) > b.trailLength
                   THEN SubSeq(pushed, Len(pushed) - b.trailLength + 1, Len(pushed))
                   ELSE pushed
    IN  [b EXCEPT !.trail = spliced, !.position = AddVector(b.position, b.momentum)]

----------------------------------------------------------------------------
(* BodyCollection: src/bodies.js *)

RECURSIVE WeightedSum(_, _, _)
\* the loop of centerOfMass over bodies k..n: <<xComp, yComp, mass>>
WeightedSum(bs, k, acc) ==
    IF k > Len(bs) THEN acc
    ELSE WeightedSum(bs, k + 1,
             <<Add(acc[1], Mul(bs[k].position.x, bs[k].mass)),
               Add(acc[2], Mul(bs[k].position.y, bs[k].mass)),
               Add(acc[3], bs[k].mass)>>)

\* centerOfMass dividing the weighted sums by the number of bodies
CenterOfMassByCount(bs) ==
    LET s == WeightedSum(bs, 1, <<Zero, Zero, Zero>>)
    IN  Vec(Div(s[1], Num(Len(bs))), Div(s[2], Num(Len(bs))))

\* BodyCollection.centerOfMass
CenterOfMass(bs) ==
    LET s == WeightedSum(bs, 1, <<Zero, Zero, Zero>>)
    IN  Vec(Div(s[1], s[3]), Div(s[2], s[3]))

\* BodyCollection.updatePositions: every adjustPosition call, in order
UpdatePositions(bs) == [k \in 1..Len(bs) |-> AdjustPosition(bs[k])]

RECURSIVE ScanAbove(_, _, _)
\* the loops of updateVectors visiting only the pairs with i < j
ScanAbove(i, j, n) ==
    IF i > n THEN <<0, 0>>
    ELSE IF j > n THEN ScanAbove(i + 1, 1, n)
    ELSE IF i >= j THEN ScanAbove(i, j + 1, n)
    ELSE <<i, j>>

RECURSIVE Scan(_, _, _)
\* the loops of updateVectors from (i, j) on: the next pair with i # j, or <<0, 0>>
Scan(i, j, n) ==
    IF i > n THEN <<0, 0>>
    ELSE IF j > n THEN Scan(i + 1, 1, n)
    ELSE IF i = j THEN Scan(i, j + 1, n)
    ELSE <<i, j>>

\* what Array.prototype.splice(index, 1) removes from an array of n elements:
\* the 0-based start and the number of elements deleted
SpliceStart(index, n) ==
    IF index < 0 THEN (IF n + index > 0 THEN n + index ELSE 0)
    ELSE IF index < n THEN index ELSE n

SpliceCount(index, n) == IF n - SpliceStart(index, n) >= 1 THEN 1 ELSE 0

----------------------------------------------------------------------------
(* The inputs the calls from outside are given *)

\* (posx, posy) of addBody
AddBodyInputs == {<<Num(0), Num(0)>>, <<Num(10), Num(0)>>}

\* (mass, posx, posy, momx, momy) of addBodyCustom
AddBodyCustomInputs ==
    {<<Half, Num(3), Num(4), Num(0), Num(0)>>,
     <<One, Num(0), Num(0), Num(1), Half>>}

\* n of setTrailLength
TrailLengthInputs == {-1, 0, 1, MAX_TRAIL_LENGTH, MAX_TRAIL_LENGTH + 1}

\* (x, y) of the positions difference and distance are called on
PositionInputs ==
    {<<Num(-5), Num(7)>>, <<Num(2), Num(3)>>, <<Num(0), Num(0)>>, <<Num(12), Num(5)>>}

\* i of setColor
ColorInputs == {-1, 0, COLOR_OPTIONS_LENGTH - 1, COLOR_OPTIONS_LENGTH}

\* pixels of setTrailThickness
ThicknessInputs == {Zero, Num(5), Num(6), Num(11)}

\* values of Math.floor(Math.random() * Body.colorOptions.length) followed
RandomColors == {0, COLOR_OPTIONS_LENGTH - 1}

\* index of removeBody
RemoveInputs == (-2)..(Len(bodies))

Outcome(op, arg, threw, ret) == [op |-> op, arg |-> arg, threw |-> threw, ret |-> ret]

\* whether every finite coordinate of the bodies is within the range the model
\* computes in: the range bounds the behaviours followed, not the program
InRange(a) == a[2] = 0 \/ (Abs(a[1]) <= MaxNumerator /\ a[2] <= MaxDenominator)

Representable(bs) ==
    \A k \in 1..Len(bs) :
        /\ InRange(bs[k].position.x) /\ InRange(bs[k].position.y)
        /\ InRange(bs[k].momentum.x) /\ InRange(bs[k].momentum.y)

----------------------------------------------------------------------------
(* The state after construction: new BodyCollection(), new Animator(...) *)

NoTick == [start |-> <<>>, n |-> 0]

Init ==
    /\ bodies = <<>>
    /\ speed = 1
    /\ tasks = <<>>
    /\ queue = <<>>
    /\ tick = NoTick
    /\ steps = 0
    /\ last = Outcome("new", <<>>, FALSE, <<>>)
    /\ isRunning = FALSE
    /\ frame = 0
    /\ callbacks = {}
    /\ handle = 0

----------------------------------------------------------------------------
(* Calls from outside on the collection and its bodies *)

\* addBodyCustom refusing only a collection that is already over its capacity
AddBodyCustomAsOffByOne(op, arg, mass, posx, posy, momx, momy) ==
    /\ queue = <<>>
    /\ IF Len(bodies) > MAX_BODIES
       THEN /\ last' = Outcome(op, arg, TRUE, <<"Body count limit reached.">>)
            /\ bodies' = bodies
       ELSE LET b == NewBody(mass, Vec(posx, posy), Vec(momx, momy))
            IN  /\ bodies' = Append(bodies, b)
                /\ last' = Outcome(op, arg, FALSE, <<b>>)
    /\ tick' = NoTick
    /\ UNCHANGED <<animation, speed, tasks, queue, steps>>

\* BodyCollection.addBodyCustom(mass, posx, posy, momx, momy)
AddBodyCustomAs(op, arg, mass, posx, posy, momx, momy) ==
    /\ queue = <<>>
    /\ IF Len(bodies) >= MAX_BODIES
       THEN /\ last' = Outcome(op, arg, TRUE, <<"Body count limit reached.">>)
            /\ bodies' = bodies
       ELSE LET b == NewBody(mass, Vec(posx, posy), Vec(momx, momy))
            IN  /\ bodies' = Append(bodies, b)
                /\ last' = Outcome(op, arg, FALSE, <<b>>)
    /\ tick' = NoTick
    /\ UNCHANGED <<animation, speed, tasks, queue, steps>>

AddBodyCustom(mass, posx, posy, momx, momy) ==
    AddBodyCustomAs("addBodyCustom", <<mass, posx, posy, momx, momy>>,
                    mass, posx, posy, momx, momy)

\* BodyCollection.addBody(posx, posy)
AddBody(posx, posy) ==
    AddBodyCustomAs("addBody", <<posx, posy>>, One, posx, posy, Zero, Zero)

\* BodyCollection.removeBody(index)
RemoveBody(index) ==
    LET n == Len(bodies)
        start == SpliceStart(index, n)
        count == SpliceCount(index, n)
    IN  /\ queue = <<>>
        /\ bodies' = SubSeq(bodies, 1, start) \o SubSeq(bodies, start + count + 1, n)
        /\ last' = Outcome("removeBody", <<index>>, FALSE, SubSeq(bodies, start + 1, start + count))
        /\ tick' = NoTick
        /\ UNCHANGED <<animation, speed, tasks, queue, steps>>

\* BodyCollection.centerOfMass()
CenterOfMassCall ==
    /\ queue = <<>>
    /\ Representable(bodies)
    /\ last' = Outcome("centerOfMass", <<>>, FALSE, <<CenterOfMass(bodies)>>)
    /\ tick' = NoTick
    /\ UNCHANGED <<animation, bodies, speed, tasks, queue, steps>>

\* setTrailLength refusing n = 100000 as well
SetTrailLengthInclusive(k, n) ==
    /\ queue = <<>>
    /\ k \in 1..Len(bodies)
    /\ IF n < 0 \/ n >= MAX_TRAIL_LENGTH
       THEN /\ last' = Outcome("setTrailLength", <<k, n>>, TRUE, <<"Invalid trail length">>)
            /\ bodies' = bodies
       ELSE /\ bodies' = [bodies EXCEPT ![k].trailLength = n]
            /\ last' = Outcome("setTrailLength", <<k, n>>, FALSE, <<>>)
    /\ tick' = NoTick
    /\ UNCHANGED <<animation, speed, tasks, queue, steps>>

\* Body.setTrailLength(n) on the body at k
SetTrailLength(k, n) ==
    /\ queue = <<>>
    /\ k \in 1..Len(bodies)
    /\ IF n < 0 \/ n > MAX_TRAIL_LENGTH
       THEN /\ last' = Outcome("setTrailLength", <<k, n>>, TRUE, <<"Invalid trail length">>)
            /\ bodies' = bodies
       ELSE /\ bodies' = [bodies EXCEPT ![k].trailLength = n]
            /\ last' = Outcome("setTrailLength", <<k, n>>, FALSE, <<>>)
    /\ tick' = NoTick
    /\ UNCHANGED <<animation, speed, tasks, queue, steps>>

\* BodyCollection.addBodyCustom(mass, posx, posy, momx, momy), the new body's
\* presentation attributes included
AddBodyCustomPainted(color, mass, posx, posy, momx, momy) ==
    /\ queue = <<>>
    /\ IF Len(bodies) >= MAX_BODIES
       THEN /\ last' = Outcome("addBodyCustom", <<mass, posx, posy, momx, momy>>, TRUE,
                               <<"Body count limit reached.">>)
            /\ bodies' = bodies
       ELSE LET b == NewBodyPainted(mass, Vec(posx, posy), Vec(momx, momy), color)
            IN  /\ bodies' = Append(bodies, b)
                /\ last' = Outcome("addBodyCustom", <<mass, posx, posy, momx, momy>>, FALSE, <<b>>)
    /\ tick' = NoTick
    /\ UNCHANGED <<animation, speed, tasks, queue, steps>>

\* Body.setColor(i) on the body at k
SetColor(k, i) ==
    /\ queue = <<>>
    /\ k \in 1..Len(bodies)
    /\ IF i < 0 \/ i >= COLOR_OPTIONS_LENGTH
       THEN /\ last' = Outcome("setColor", <<k, i>>, TRUE, <<"Invalid color index">>)
            /\ bodies' = bodies
       ELSE /\ bodies' = [bodies EXCEPT ![k].colorIndex = i]
            /\ last' = Outcome("setColor", <<k, i>>, FALSE, <<i>>)
    /\ tick' = NoTick
    /\ UNCHANGED <<animation, speed, tasks, queue, steps>>

\* setTrailThickness comparing with the radius of a body of mass 1
SetTrailThicknessAnyMass(k, pixels) ==
    /\ queue = <<>>
    /\ k \in 1..Len(bodies)
    /\ IF LessEq(pixels, Zero) \/ Less(Num(10), pixels)
       THEN /\ last' = Outcome("setTrailThickness", <<k, pixels>>, TRUE,
                               <<"Invalid trail thickness">>)
            /\ bodies' = bodies
       ELSE /\ bodies' = [bodies EXCEPT ![k].trailThickness = pixels]
            /\ last' = Outcome("setTrailThickness", <<k, pixels>>, FALSE, <<pixels>>)
    /\ tick' = NoTick
    /\ UNCHANGED <<animation, speed, tasks, queue, steps>>

\* Body.setTrailThickness(pixels) on the body at k
SetTrailThickness(k, pixels) ==
    /\ queue = <<>>
    /\ k \in 1..Len(bodies)
    /\ IF LessEq(pixels, Zero) \/ Less(Radius(bodies[k]), pixels)
       THEN /\ last' = Outcome("setTrailThickness", <<k, pixels>>, TRUE,
                               <<"Invalid trail thickness">>)
            /\ bodies' = bodies
       ELSE /\ bodies' = [bodies EXCEPT ![k].trailThickness = pixels]
            /\ last' = Outcome("setTrailThickness", <<k, pixels>>, FALSE, <<pixels>>)
    /\ tick' = NoTick
    /\ UNCHANGED <<animation, speed, tasks, queue, steps>>

\* bodies[i].position.difference(bodies[j].position), awaited
DifferenceCall(i, j) ==
    /\ queue = <<>>
    /\ i \in 1..Len(bodies) /\ j \in 1..Len(bodies)
    /\ last' = Outcome("difference", <<i, j>>, FALSE,
                       <<Difference(bodies[i].position, bodies[j].position)>>)
    /\ tick' = NoTick
    /\ UNCHANGED <<animation, bodies, speed, tasks, queue, steps>>

\* bodies[i].position.distance(bodies[j].position), awaited
DistanceCall(i, j) ==
    /\ queue = <<>>
    /\ i \in 1..Len(bodies) /\ j \in 1..Len(bodies)
    /\ last' = Outcome("distance", <<i, j>>, FALSE,
                       <<Distance(bodies[i].position, bodies[j].position)>>)
    /\ tick' = NoTick
    /\ UNCHANGED <<animation, bodies, speed, tasks, queue, steps>>

\* the client's assignment to Animator.speed
SetSpeed(n) ==
    /\ queue = <<>>
    /\ speed # n
    /\ speed' = n
    /\ last' = Outcome("setSpeed", <<n>>, FALSE, <<>>)
    /\ tick' = NoTick
    /\ UNCHANGED <<animation, bodies, tasks, queue, steps>>

----------------------------------------------------------------------------
(* One updateSimulation() call: src/bodies.js, lines 92-124 and 268-295.    *)
(* A task is the call's position (pc) and the locals of the frames that    *)
(* are suspended at an await:                                              *)
(*   dist     distance() awaits difference(): p holds the difference       *)
(*   coeff    gravCoeff() awaits distance(): radius holds what it returns  *)
(*   diff     adjustVector() awaits gravCoeff(): c holds what it returns   *)
(*   add      adjustVector() awaits difference(): posDiff holds the result *)
(*   ret      adjustVector() awaits addCoords(), which has run             *)
(*   next     updateVectors() awaits adjustVector(), which has returned    *)
(*   vecdone  updateSimulation() awaits updateVectors(), which has returned*)
(*   posdone  updateSimulation() awaits updatePositions(), which has run   *)
(*   done     updateSimulation() has returned                              *)

Task(pc, i, j, p, radius, c, posDiff) ==
    [pc |-> pc, i |-> i, j |-> j, p |-> p, radius |-> radius, c |-> c, posDiff |-> posDiff]

At(pc, i, j) == Task(pc, i, j, ZeroVec, Sqrt(Zero), Zero, ZeroVec)

\* updateVectors() reaching bodies[i].adjustVector(bodies[j]): adjustVector calls
\* gravCoeff, which calls distance, which calls difference and awaits it
CallAdjustVector(bs, i, j) ==
    [At("dist", i, j) EXCEPT !.p = Difference(bs[i].position, bs[j].position)]

\* updateVectors() from the pair (i, j) of its loops on, up to its next await
UpdateVectorsFrom(bs, i, j) ==
    LET pair == Scan(i, j, Len(bs))
    IN  IF pair = <<0, 0>> THEN At("vecdone", 0, 0)
        ELSE CallAdjustVector(bs, pair[1], pair[2])

\* updateSimulation() up to its first await
StartUpdateSimulation(bs) == UpdateVectorsFrom(bs, 1, 1)

\* what loop() hands to drawCoords for a body: x, y and the radius
DrawBody(b) == <<b.position.x, b.position.y, Radius(b)>>

\* what loop() draws before it returns: the center of mass and every body's
\* circle (drawBodyTrail runs in a later job of drawBody and is not followed)
Draw(bs) == <<CenterOfMass(bs), [k \in 1..Len(bs) |-> DrawBody(bs[k])]>>

\* loop() making one updateSimulation() call even when speed is 0
LoopAsAtLeastOnce(pending) ==
    LET n == IF speed = 0 THEN 1 ELSE speed
    IN  /\ queue = <<>>
        /\ steps + n <= MaxSteps
        /\ Representable(bodies)
        /\ isRunning => handle < MaxRequests
        /\ tasks' = [t \in 1..n |-> StartUpdateSimulation(bodies)]
        /\ queue' = [t \in 1..n |-> t]
        /\ tick' = [start |-> bodies, n |-> speed]
        /\ steps' = steps + n
        /\ last' = Outcome("loop", <<>>, FALSE, Draw(bodies))
        /\ IF isRunning
           THEN handle' = handle + 1 /\ callbacks' = pending \cup {handle + 1}
           ELSE handle' = handle /\ callbacks' = pending
        /\ UNCHANGED <<bodies, speed, isRunning, frame>>

\* Animator.loop() with the animation frame callbacks in pending still to run:
\* calculate() makes speed updateSimulation() calls without awaiting any, the
\* bodies and the center of mass are drawn, and if isRunning the next frame is
\* requested
LoopAs(pending) ==
    /\ queue = <<>>
    /\ steps + speed <= MaxSteps
    /\ Representable(bodies)
    /\ isRunning => handle < MaxRequests
    /\ tasks' = [t \in 1..speed |-> StartUpdateSimulation(bodies)]
    /\ queue' = [t \in 1..speed |-> t]
    /\ tick' = [start |-> bodies, n |-> speed]
    /\ steps' = steps + speed
    /\ last' = Outcome("loop", <<>>, FALSE, Draw(bodies))
    /\ IF isRunning
       THEN handle' = handle + 1 /\ callbacks' = pending \cup {handle + 1}
       ELSE handle' = handle /\ callbacks' = pending
    /\ UNCHANGED <<bodies, speed, isRunning, frame>>

\* Animator.loop() called from outside
Loop == LoopAs(callbacks)

\* the browser runs the oldest animation frame callback, () => this.loop()
Frame ==
    /\ callbacks # {}
    /\ LET id == CHOOSE h \in callbacks : \A other \in callbacks : h <= other
       IN  LoopAs(callbacks \ {id})

\* Animator.start(), called as op
StartAs(op) ==
    /\ queue = <<>>
    /\ handle < MaxRequests
    /\ handle' = handle + 1
    /\ callbacks' = callbacks \cup {handle + 1}
    /\ frame' = handle + 1
    /\ isRunning' = TRUE
    /\ last' = Outcome(op, <<>>, FALSE, <<>>)
    /\ tick' = NoTick
    /\ UNCHANGED <<bodies, speed, tasks, queue, steps>>

\* Animator.stop(), called as op
StopAs(op) ==
    /\ queue = <<>>
    /\ isRunning' = FALSE
    /\ callbacks' = callbacks \ {frame}
    /\ last' = Outcome(op, <<>>, FALSE, <<>>)
    /\ tick' = NoTick
    /\ UNCHANGED <<bodies, speed, tasks, queue, steps, frame, handle>>

\* Animator.start()
Start == StartAs("start")

\* Animator.stop()
Stop == StopAs("stop")

\* Animator.toggle()
Toggle == IF isRunning THEN StopAs("toggle") ELSE StartAs("toggle")

\* the job at the head of the microtask queue resumes task t at pc
Running(t, pc) == queue # <<>> /\ Head(queue) = t /\ t > 0 /\ tasks[t].pc = pc

\* the task suspends again at its next await
Suspend(t, task) ==
    /\ tasks' = [tasks EXCEPT ![t] = task]
    /\ queue' = Append(Tail(queue), t)

\* distance() resumes with p and returns Math.sqrt(p.x * p.x + p.y * p.y)
DistanceResume(t) ==
    /\ Running(t, "dist")
    /\ LET k == tasks[t]
       IN  Suspend(t, [At("coeff", k.i, k.j) EXCEPT
                          !.radius = Sqrt(Add(Mul(k.p.x, k.p.x), Mul(k.p.y, k.p.y)))])
    /\ UNCHANGED <<animation, bodies, speed, tick, steps, last>>

\* gravCoeff() returning the coefficient without its factor 0.5
GravCoeffResumeWhole(t) ==
    /\ Running(t, "coeff")
    /\ LET k == tasks[t]
       IN  Suspend(t, [At("diff", k.i, k.j) EXCEPT
                          !.c = Div(Mul(bodies[k.i].mass, bodies[k.j].mass), Square(k.radius))])
    /\ UNCHANGED <<animation, bodies, speed, tick, steps, last>>

\* gravCoeff() resumes with radius and returns the coefficient
GravCoeffResume(t) ==
    /\ Running(t, "coeff")
    /\ LET k == tasks[t]
       IN  Suspend(t, [At("diff", k.i, k.j) EXCEPT
                          !.c = Coeff(bodies[k.i].mass, bodies[k.j].mass, k.radius)])
    /\ UNCHANGED <<animation, bodies, speed, tick, steps, last>>

\* adjustVector() resumes with c and calls difference()
AdjustVectorCoeff(t) ==
    /\ Running(t, "diff")
    /\ LET k == tasks[t]
       IN  Suspend(t, [At("add", k.i, k.j) EXCEPT
                          !.c = k.c,
                          !.posDiff = Difference(bodies[k.i].position, bodies[k.j].position)])
    /\ UNCHANGED <<animation, bodies, speed, tick, steps, last>>

\* adjustVector() adding the attraction to the position as well as to the momentum
AdjustVectorDiffMoving(t) ==
    /\ Running(t, "add")
    /\ LET k == tasks[t]
       IN  /\ bodies' = [bodies EXCEPT
                            ![k.i].momentum =
                                AddCoords(@, Mul(k.c, k.posDiff.x), Mul(k.c, k.posDiff.y)),
                            ![k.i].position =
                                AddVector(@, Vec(Mul(k.c, k.posDiff.x), Mul(k.c, k.posDiff.y)))]
           /\ Suspend(t, At("ret", k.i, k.j))
    /\ UNCHANGED <<animation, speed, tick, steps, last>>

\* adjustVector() resumes with posDiff and calls momentum.addCoords()
AdjustVectorDiff(t) ==
    /\ Running(t, "add")
    /\ LET k == tasks[t]
       IN  /\ bodies' = [bodies EXCEPT ![k.i].momentum =
                            AddCoords(@, Mul(k.c, k.posDiff.x), Mul(k.c, k.posDiff.y))]
           /\ Suspend(t, At("ret", k.i, k.j))
    /\ UNCHANGED <<animation, speed, tick, steps, last>>

\* adjustVector() resumes after addCoords() and returns
AdjustVectorReturn(t) ==
    /\ Running(t, "ret")
    /\ Suspend(t, At("next", tasks[t].i, tasks[t].j))
    /\ UNCHANGED <<animation, bodies, speed, tick, steps, last>>

\* updateVectors() as a single pass: when the inner loop of body i ends, body i is
\* displaced at once, before the momentum of the bodies after it is updated
UpdateVectorsResumeSinglePass(t) ==
    /\ Running(t, "next")
    /\ LET k == tasks[t]
           pair == Scan(k.i, k.j + 1, Len(bodies))
           moved == IF pair[1] # k.i THEN [bodies EXCEPT ![k.i] = AdjustPosition(@)]
                    ELSE bodies
       IN  /\ bodies' = moved
           /\ Suspend(t, UpdateVectorsFrom(moved, k.i, k.j + 1))
    /\ UNCHANGED <<animation, speed, tick, steps, last>>

\* updateVectors() resumes in its inner loop and goes on to the next pair
UpdateVectorsResume(t) ==
    /\ Running(t, "next")
    /\ Suspend(t, UpdateVectorsFrom(bodies, tasks[t].i, tasks[t].j + 1))
    /\ UNCHANGED <<animation, bodies, speed, tick, steps, last>>

\* updateSimulation() resumes after updateVectors() and calls updatePositions(),
\* which calls every adjustPosition() without awaiting it; each leaves a
\* continuation in the queue, and then updateSimulation() awaits
UpdateSimulationVectors(t) ==
    /\ Running(t, "vecdone")
    /\ bodies' = UpdatePositions(bodies)
    /\ tasks' = [tasks EXCEPT ![t] = At("posdone", 0, 0)]
    /\ queue' = Tail(queue) \o [k \in 1..Len(bodies) |-> 0] \o <<t>>
    /\ UNCHANGED <<animation, speed, tick, steps, last>>

\* adjustPosition() resumes after addVector() and returns
AdjustPositionResume ==
    /\ queue # <<>> /\ Head(queue) = 0
    /\ queue' = Tail(queue)
    /\ UNCHANGED <<animation, bodies, speed, tasks, tick, steps, last>>

\* updateSimulation() resumes after updatePositions() and returns
UpdateSimulationReturn(t) ==
    /\ Running(t, "posdone")
    /\ tasks' = IF Tail(queue) = <<>> THEN <<>> ELSE [tasks EXCEPT ![t] = At("done", 0, 0)]
    /\ queue' = Tail(queue)
    /\ UNCHANGED <<animation, bodies, speed, tick, steps, last>>

\* one job of the microtask queue
Microtask ==
    \/ \E t \in 1..Len(tasks) :
          \/ DistanceResume(t)
          \/ GravCoeffResume(t)
          \/ AdjustVectorCoeff(t)
          \/ AdjustVectorDiff(t)
          \/ AdjustVectorReturn(t)
          \/ UpdateVectorsResume(t)
          \/ UpdateSimulationVectors(t)
          \/ UpdateSimulationReturn(t)
    \/ AdjustPositionResume

----------------------------------------------------------------------------
(* Spec: a collection of at most MaxBodies bodies, simulated *)

Next ==
    \/ \E in \in AddBodyInputs :
          Len(bodies) < MaxBodies /\ AddBody(in[1], in[2])
    \/ \E in \in AddBodyCustomInputs :
          Len(bodies) < MaxBodies /\ AddBodyCustom(in[1], in[2], in[3], in[4], in[5])
    \/ \E index \in RemoveInputs : RemoveBody(index)
    \/ \E n \in 0..MaxSpeed : SetSpeed(n)
    \/ CenterOfMassCall
    \/ Loop
    \/ Microtask

Spec == Init /\ [][Next]_vars

(* SpecTrail: the trails of at most MaxTrailBodies bodies, simulated *)

NextTrail ==
    \/ \E in \in AddBodyCustomInputs :
          Len(bodies) < MaxTrailBodies /\ AddBodyCustom(in[1], in[2], in[3], in[4], in[5])
    \/ \E k \in 1..Len(bodies), n \in TrailLengthInputs : SetTrailLength(k, n)
    \/ \E n \in 1..MaxSpeed : SetSpeed(n)
    \/ Loop
    \/ Microtask

SpecTrail == Init /\ [][NextTrail]_vars

(* SpecCap: a collection filled to its capacity, not simulated *)

NextCap ==
    \/ AddBody(Num(0), Num(0))
    \/ AddBodyCustom(Half, Num(3), Num(4), Num(0), Num(0))
    \/ \E index \in RemoveInputs : RemoveBody(index)

SpecCap == Init /\ [][NextCap]_vars

(* SpecPaint: at most MaxTrailBodies bodies with their presentation         *)
(* attributes and a trail, simulated                                        *)

NextPaint ==
    \/ \E in \in AddBodyCustomInputs, color \in RandomColors :
          /\ Len(bodies) < MaxTrailBodies
          /\ AddBodyCustomPainted(color, in[1], in[2], in[3], in[4], in[5])
    \/ \E k \in 1..Len(bodies), i \in ColorInputs : SetColor(k, i)
    \/ \E k \in 1..Len(bodies), pixels \in ThicknessInputs : SetTrailThickness(k, pixels)
    \/ \E k \in 1..Len(bodies) : SetTrailLength(k, 1)
    \/ Loop
    \/ Microtask

SpecPaint == Init /\ [][NextPaint]_vars

(* SpecPosition: difference and distance between the positions of at most *)
(* MaxBodies bodies                                                        *)

NextPosition ==
    \/ \E in \in PositionInputs :
          Len(bodies) < MaxBodies /\ AddBody(in[1], in[2])
    \/ \E i \in 1..Len(bodies), j \in 1..Len(bodies) : DifferenceCall(i, j)
    \/ \E i \in 1..Len(bodies), j \in 1..Len(bodies) : DistanceCall(i, j)

SpecPosition == Init /\ [][NextPosition]_vars

(* SpecAnim: the animation of at most MaxTrailBodies bodies, started and    *)
(* stopped, loop() being run by the browser only                            *)

NextAnim ==
    \/ /\ Len(bodies) < MaxTrailBodies
       /\ AddBodyCustom(One, Num(0), Num(0), Num(1), Half)
    \/ Start
    \/ Stop
    \/ Toggle
    \/ Frame
    \/ Microtask

SpecAnim == Init /\ [][NextAnim]_vars

(* SpecPhases: at most MaxBodies bodies in a row, with trails, one step or none *)
(* a tick                                                                  *)

NextPhases ==
    \/ Len(bodies) < MaxBodies /\ AddBody(Num(10 * Len(bodies)), Num(0))
    \/ \E k \in 1..Len(bodies), n \in 0..1 : SetTrailLength(k, n)
    \/ \E n \in 0..1 : SetSpeed(n)
    \/ Loop
    \/ Microtask

SpecPhases == Init /\ [][NextPhases]_vars

(* SpecHistory: at most MaxBodies bodies, a body added while another has   *)
(* a trail of two entries, one step a tick; setTrailLength(2) is called on  *)
(* a body once                                                              *)

NextHistory ==
    \/ \E in \in AddBodyCustomInputs :
          Len(bodies) < MaxBodies /\ AddBodyCustom(in[1], in[2], in[3], in[4], in[5])
    \/ \E k \in 1..Len(bodies) : bodies[k].trailLength # 2 /\ SetTrailLength(k, 2)
    \/ Loop
    \/ Microtask

SpecHistory == Init /\ [][NextHistory]_vars

----------------------------------------------------------------------------
(* One updateSimulation() call run to its end with no other call in flight: *)
(* every job it queues runs before anything else does, so its awaits are   *)
(* plain sequencing                                                        *)

RECURSIVE UpdateVectorsLoop(_, _, _)
\* the loops of updateVectors from the pair (i, j) on
UpdateVectorsLoop(bs, i, j) ==
    LET pair == Scan(i, j, Len(bs))
    IN  IF pair = <<0, 0>> THEN bs
        ELSE UpdateVectorsLoop(
                 [bs EXCEPT ![pair[1]] = AdjustVector(bs[pair[1]], bs[pair[2]])],
                 pair[1], pair[2] + 1)

\* BodyCollection.updateVectors
UpdateVectors(bs) == UpdateVectorsLoop(bs, 1, 1)

\* BodyCollection.updateSimulation
UpdateSimulation(bs) == UpdatePositions(UpdateVectors(bs))

RECURSIVE RunSteps(_, _)
\* n steps, one at a time
RunSteps(bs, n) == IF n = 0 THEN bs ELSE RunSteps(UpdateSimulation(bs), n - 1)

----------------------------------------------------------------------------
(* The synchronous step the asynchronous one was written from:             *)
(* src/unnamed/part_001, lines 34-119 and 144-166                          *)

\* Position.difference (synchronous): this = a, position = b
DifferenceSync(a, b) == Vec(Sub(b.x, a.x), Sub(b.y, a.y))

\* Position.distance (synchronous)
DistanceSync(a, b) ==
    LET p == DifferenceSync(a, b)
    IN  Sqrt(Add(Mul(p.x, p.x), Mul(p.y, p.y)))

\* Body.gravCoeff (synchronous): this = a, body = b
GravCoeffSync(a, b) ==
    LET radius == DistanceSync(a.position, b.position)
    IN  Mul(Div(Mul(a.mass, b.mass), Square(radius)), Half)

\* Body.adjustVector (synchronous): this = a, body = b
AdjustVectorSync(a, b) ==
    LET c == GravCoeffSync(a, b)
        posDiff == DifferenceSync(a.position, b.position)
    IN  [a EXCEPT !.momentum = Vec(Add(a.momentum.x, Mul(c, posDiff.x)),
                                   Add(a.momentum.y, Mul(c, posDiff.y)))]

\* Body.adjustPosition (synchronous): no trail is kept
AdjustPositionSync(b) ==
    [b EXCEPT !.position = Vec(Add(b.position.x, b.momentum.x),
                               Add(b.position.y, b.momentum.y))]

RECURSIVE UpdateValuesVectors(_, _, _)
\* the first loops of updateValues from (i, j) on, 1-based
UpdateValuesVectors(bs, i, j) ==
    IF i > Len(bs) THEN bs
    ELSE IF j > Len(bs) THEN UpdateValuesVectors(bs, i + 1, 1)
    ELSE IF i = j THEN UpdateValuesVectors(bs, i, j + 1)
    ELSE UpdateValuesVectors([bs EXCEPT ![i] = AdjustVectorSync(bs[i], bs[j])], i, j + 1)

RECURSIVE UpdateValuesCalls(_, _, _)
\* the adjustVector calls the first loops of updateValues make from (i, j) on
\* over n bodies, in order: <<i, j>> for bodies[i].adjustVector(bodies[j])
UpdateValuesCalls(i, j, n) ==
    IF i > n THEN <<>>
    ELSE IF j > n THEN UpdateValuesCalls(i + 1, 1, n)
    ELSE IF i = j THEN UpdateValuesCalls(i, j + 1, n)
    ELSE <<<<i, j>>>> \o UpdateValuesCalls(i, j + 1, n)

\* updateValues
UpdateValues(bs) ==
    LET adjusted == UpdateValuesVectors(bs, 1, 1)
    IN  [k \in 1..Len(bs) |-> AdjustPositionSync(adjusted[k])]

RECURSIVE LoopUpdate(_, _)
\* loopUpdate(n)
LoopUpdate(bs, n) == IF n <= 0 THEN bs ELSE LoopUpdate(UpdateValues(bs), n - 1)

----------------------------------------------------------------------------
(* Properties *)

\* the pcs at which a momentum update of the step is still to run or running
Accumulating == {"dist", "coeff", "diff", "add", "ret", "next"}

\* what the accumulation phase reads of the bodies
Physical(bs) == [k \in 1..Len(bs) |-> [mass |-> bs[k].mass, position |-> bs[k].position]]

\* the tick's steps have all run to their end
TickDone == queue = <<>> /\ last.op = "loop"

\* this step is the displacement phase of a step: updatePositions() runs
Displaces ==
    /\ Len(tasks') = Len(tasks)
    /\ \E t \in 1..Len(tasks) : tasks[t].pc = "vecdone" /\ tasks'[t].pc = "posdone"

\* the last n elements of s, all of s when it has fewer
LastN(s, n) == IF Len(s) > n THEN SubSeq(s, Len(s) - n + 1, Len(s)) ELSE s

(* C1: within a step, while any momentum update of the step is outstanding *)
(* no position or mass differs from what it was when the step began, and    *)
(* every value an update has read (the difference behind the distance, the  *)
(* distance, the coefficient, the position difference) is the one computed  *)
(* from the positions and masses at the step's beginning.                   *)
C1_PhaseBarrier ==
    \A t \in 1..Len(tasks) :
        LET k == tasks[t]
            a == tick.start[k.i]
            b == tick.start[k.j]
        IN  k.pc \in Accumulating =>
              /\ Physical(bodies) = Physical(tick.start)
              /\ k.pc = "dist" => k.p = Difference(a.position, b.position)
              /\ k.pc = "coeff" => k.radius = Distance(a.position, b.position)
              /\ k.pc \in {"diff", "add"} => k.c = GravCoeff(a, b)
              /\ k.pc = "add" => k.posDiff = Difference(a.position, b.position)

\* two steps in flight, the second one's last momentum update about to be applied
\* after earlier updates have changed a momentum, and no position has moved
C1_Witness ==
    /\ Len(tasks) = 2
    /\ tasks[2].pc = "add" /\ tasks[2].i = 2 /\ tasks[2].j = 1
    /\ IsFinite(tasks[2].c) /\ tasks[2].c # Zero
    /\ bodies[1].momentum # tick.start[1].momentum
    /\ Physical(bodies) = Physical(tick.start)

(* C2: when a tick of n >= 2 steps has run to its end, the bodies are in  *)
(* the state that n steps run one at a time from the tick's beginning     *)
(* reach.                                                                  *)
C2_StepsOneAfterAnother ==
    (TickDone /\ tick.n >= 2) => bodies = RunSteps(tick.start, tick.n)

(* C3: the collection never holds more than MAX_BODIES bodies, and an add  *)
(* made while it holds MAX_BODIES throws and leaves the bodies as they were *)
C3_Capacity ==
    /\ [](Len(bodies) <= MAX_BODIES)
    /\ [][(last'.op \in {"addBody", "addBodyCustom"} /\ Len(bodies) = MAX_BODIES)
            => (last'.threw /\ bodies' = bodies)]_vars

\* an add has thrown on a full collection
C3_Witness ==
    /\ Len(bodies) = MAX_BODIES
    /\ last.op \in {"addBody", "addBodyCustom"} /\ last.threw

(* C4: right after the displacement phase of a step, every body's trail    *)
(* holds at most trailLength entries.                                      *)
C4_TrailBound ==
    (\E t \in 1..Len(tasks) : tasks[t].pc = "posdone")
        => \A k \in 1..Len(bodies) : Len(bodies[k].trail) <= bodies[k].trailLength

\* a step has just trimmed a trail that was longer than a capacity lowered to 1:
\* the entry kept is not the position the step began at
C4_Witness ==
    /\ \E t \in 1..Len(tasks) : tasks[t].pc = "posdone"
    /\ tick.n = 1 /\ Len(bodies) >= 1
    /\ bodies[1].trailLength = 1 /\ Len(bodies[1].trail) = 1
    /\ Len(tick.start[1].trail) > 1
    /\ steps > 2

(* C5: after each step taken while trailLength > 0, the last entry of the  *)
(* trail is the position the body had before the step's displacement, and  *)
(* the trail is the old trail with that position appended, less its oldest  *)
(* entries.                                                                 *)
C5_TailIsPreStepPosition ==
    [][Displaces =>
          \A k \in 1..Len(bodies) :
              bodies[k].trailLength > 0 =>
                /\ Len(bodies'[k].trail) > 0
                /\ bodies'[k].trail[Len(bodies'[k].trail)] = ExportCoordinates(bodies[k].position)
                /\ bodies'[k].trail =
                       LastN(Append(bodies[k].trail, ExportCoordinates(bodies[k].position)),
                             Len(bodies'[k].trail))]_vars

(* C6, as claimed: adjustPosition appends the position exactly when        *)
(* trailLength > 0 and the trail is strictly shorter than trailLength,     *)
(* then trims from the head to trailLength entries, then adds the momentum  *)
(* to the position.                                                         *)
C6_AppendsWhenStrictlyBelow ==
    [][Displaces =>
          \A k \in 1..Len(bodies) :
              LET b == bodies[k]
                  appends == b.trailLength > 0 /\ Len(b.trail) < b.trailLength
                  pushed == IF appends THEN Append(b.trail, ExportCoordinates(b.position))
                            ELSE b.trail
              IN  /\ bodies'[k].trail = LastN(pushed, b.trailLength)
                  /\ bodies'[k].position = AddVector(b.position, b.momentum)]_vars

(* C6, amended: adjustPosition appends the position exactly when           *)
(* trailLength is not 0 and the trail is no longer than trailLength, then   *)
(* trims from the head to trailLength entries, then adds the momentum to    *)
(* the position.                                                            *)
C6_AppendsWhenNotAbove ==
    [][Displaces =>
          \A k \in 1..Len(bodies) :
              LET b == bodies[k]
                  appends == b.trailLength # 0 /\ Len(b.trail) <= b.trailLength
                  pushed == IF appends THEN Append(b.trail, ExportCoordinates(b.position))
                            ELSE b.trail
              IN  /\ bodies'[k].trail = LastN(pushed, b.trailLength)
                  /\ bodies'[k].position = AddVector(b.position, b.momentum)]_vars

\* a step has appended to a trail that was already trailLength long
C6_Witness ==
    /\ \E t \in 1..Len(tasks) : tasks[t].pc = "posdone"
    /\ tick.n = 1 /\ Len(bodies) >= 1
    /\ bodies[1].trailLength = 1 /\ Len(tick.start[1].trail) = 1
    /\ bodies[1].trail = <<ExportCoordinates(tick.start[1].position)>>
    /\ bodies[1].trail # tick.start[1].trail

(* C7: removeBody(index) with 0 <= index < the number of bodies removes and *)
(* returns the body at index; with any other index it throws and leaves the *)
(* bodies as they were.                                                     *)
C7_RemoveBody ==
    [][last'.op = "removeBody" =>
          LET index == last'.arg[1]
              n == Len(bodies)
          IN  IF 0 <= index /\ index < n
              THEN /\ ~last'.threw
                   /\ last'.ret = <<bodies[index + 1]>>
                   /\ bodies' = SubSeq(bodies, 1, index) \o SubSeq(bodies, index + 2, n)
              ELSE last'.threw /\ bodies' = bodies]_vars

(* C8: centerOfMass() on a collection of no bodies throws, also when it is *)
(* the animation loop that calls it.                                        *)
C8_EmptyCollectionThrows ==
    /\ (last.op = "centerOfMass" /\ bodies = <<>>) => last.threw
    /\ (last.op = "loop" /\ tick.start = <<>>) => last.threw

(* C9: setTrailLength(n) throws exactly when n < 0 or n > 100000; when it   *)
(* throws the body is unchanged; when it does not, trailLength is n and     *)
(* nothing else of the body has changed.                                    *)
C9_SetTrailLength ==
    [][last'.op = "setTrailLength" =>
          LET k == last'.arg[1]
              n == last'.arg[2]
          IN  /\ last'.threw <=> (n < 0 \/ n > 100000)
              /\ last'.threw => bodies' = bodies
              /\ ~last'.threw => bodies' = [bodies EXCEPT ![k].trailLength = n]
              /\ n \in {-1, 100001} => last'.threw
              /\ n \in {0, 100000} => ~last'.threw]_vars

\* setTrailLength(100001) has thrown on a body with a trail
C9_Witness ==
    /\ last.op = "setTrailLength" /\ last.threw /\ last.arg[2] = 100001
    /\ bodies[last.arg[1]].trail # <<>>
    /\ bodies[last.arg[1]].trailLength = 1

RECURSIVE C10_Sum(_, _, _)
\* the sum over the bodies j >= from, j # i, of c_ij * (pos_j - pos_i)
C10_Sum(bs, i, from) ==
    IF from > Len(bs) THEN ZeroVec
    ELSE IF from = i THEN C10_Sum(bs, i, from + 1)
    ELSE LET dx == Sub(bs[from].position.x, bs[i].position.x)
             dy == Sub(bs[from].position.y, bs[i].position.y)
             dist2 == Add(Mul(dx, dx), Mul(dy, dy))
             c == Mul(Div(Mul(bs[i].mass, bs[from].mass), dist2), Half)
             rest == C10_Sum(bs, i, from + 1)
         IN  Vec(Add(Mul(c, dx), rest.x), Add(Mul(c, dy), rest.y))

\* bodies A (mass 1 at (0, 0)) and B (mass 1 at (10, 0)), both at rest
C10_Example ==
    <<NewBody(One, Vec(Num(0), Num(0)), ZeroVec), NewBody(One, Vec(Num(10), Num(0)), ZeroVec)>>

(* C10: after one step each body's momentum is its momentum before the     *)
(* step plus the sum over the other bodies j of c_ij * (pos_j - pos_i),     *)
(* c_ij = mass_i * mass_j / dist(i, j)^2 * 0.5, on the positions before the *)
(* step; for A and B of the example that is (0.05, 0) and (-0.05, 0).       *)
C10_MomentumAfterOneStep ==
    (TickDone /\ tick.n = 1) =>
        /\ \A i \in 1..Len(bodies) :
              LET sum == C10_Sum(tick.start, i, 1)
              IN  bodies[i].momentum =
                      Vec(Add(tick.start[i].momentum.x, sum.x),
                          Add(tick.start[i].momentum.y, sum.y))
        /\ tick.start = C10_Example =>
              /\ bodies[1].momentum = Vec(<<1, 20>>, Zero)
              /\ bodies[2].momentum = Vec(<<-1, 20>>, Zero)

\* the one step of the example has run
C10_Witness ==
    /\ TickDone /\ tick.n = 1
    /\ tick.start = C10_Example
    /\ bodies[1].momentum = Vec(<<1, 20>>, Zero)
    /\ bodies[1].position = Vec(<<1, 20>>, Zero)

\* this step resumes a momentum update of a step: the accumulation phase runs
Accumulates ==
    /\ queue # <<>> /\ Head(queue) > 0
    /\ tasks[Head(queue)].pc \in Accumulating

(* C11: a step of the accumulation phase leaves every body's position, mass *)
(* and trail as they were; the displacement phase leaves every body's       *)
(* momentum and mass as they were; and no operation changes the mass of a   *)
(* body that is in the collection.                                          *)
C11_PhaseEffects ==
    [][/\ Accumulates =>
            /\ Len(bodies') = Len(bodies)
            /\ \A k \in 1..Len(bodies) :
                  /\ bodies'[k].position = bodies[k].position
                  /\ bodies'[k].mass = bodies[k].mass
                  /\ bodies'[k].trail = bodies[k].trail
       /\ Displaces =>
            /\ Len(bodies') = Len(bodies)
            /\ \A k \in 1..Len(bodies) :
                  /\ bodies'[k].momentum = bodies[k].momentum
                  /\ bodies'[k].mass = bodies[k].mass
       /\ Len(bodies') >= Len(bodies)
       /\ \A k \in 1..Len(bodies) : bodies'[k].mass = bodies[k].mass]_vars

\* a step on two bodies has displaced: its accumulation has changed a momentum
\* and left the trail alone, its displacement has moved the body and recorded it
C11_Witness ==
    /\ Len(bodies) = 2 /\ tick.n = 1
    /\ \E t \in 1..Len(tasks) : tasks[t].pc = "posdone"
    /\ bodies[1].momentum # tick.start[1].momentum
    /\ bodies[1].position # tick.start[1].position
    /\ tick.start[1].trail # <<>>
    /\ bodies[1].trail # tick.start[1].trail
    /\ bodies[1].mass = tick.start[1].mass

(* C12: when one updateSimulation() call has run to its end with no other  *)
(* call in flight, every body's position and momentum are those the         *)
(* synchronous step updateValues produces from the state the call began in. *)
C12_AsyncStepIsSyncStep ==
    (TickDone /\ tick.n = 1) =>
        LET sync == UpdateValues(tick.start)
        IN  /\ Len(bodies) = Len(sync)
            /\ \A k \in 1..Len(bodies) :
                  /\ bodies[k].position = sync[k].position
                  /\ bodies[k].momentum = sync[k].momentum

\* a step of two bodies that were already moving has run alone to its end
C12_Witness ==
    /\ TickDone /\ tick.n = 1 /\ Len(bodies) = 2
    /\ tick.start[1].momentum # ZeroVec /\ tick.start[2].momentum # ZeroVec
    /\ IsFinite(bodies[1].momentum.x) /\ IsFinite(bodies[2].momentum.x)
    /\ bodies[1].momentum # tick.start[1].momentum
    /\ bodies[2].momentum # tick.start[2].momentum
    /\ bodies[1].position # tick.start[1].position

RECURSIVE C13_Moment(_, _, _)
\* the sum over the bodies 1..k of mass_i * (coordinate_i - c), coordinate 1 being x
C13_Moment(bs, k, c) ==
    IF k = 0 THEN ZeroVec
    ELSE LET rest == C13_Moment(bs, k - 1, c)
         IN  Vec(Add(rest.x, Mul(bs[k].mass, Sub(bs[k].position.x, c.x))),
                 Add(rest.y, Mul(bs[k].mass, Sub(bs[k].position.y, c.y))))

RECURSIVE C13_Sum(_, _)
\* <<sum of position_i.x * mass_i, sum of position_i.y * mass_i, sum of mass_i>>, last body first
C13_Sum(bs, k) ==
    IF k = 0 THEN <<Zero, Zero, Zero>>
    ELSE LET rest == C13_Sum(bs, k - 1)
         IN  <<Add(Mul(bs[k].mass, bs[k].position.x), rest[1]),
               Add(Mul(bs[k].mass, bs[k].position.y), rest[2]),
               Add(bs[k].mass, rest[3])>>

(* C13: centerOfMass() on a collection that is not empty does not throw,   *)
(* returns sum(position_i * mass_i) / sum(mass_i), about which the masses  *)
(* balance when it is finite, and changes no body; for two bodies of mass  *)
(* 1 at (0, 0) and (10, 0) it returns (5, 0).                              *)
C13_CenterOfMass ==
    [][(last'.op = "centerOfMass" /\ bodies # <<>>) =>
          LET s == C13_Sum(bodies, Len(bodies))
              c == last'.ret[1]
          IN  /\ ~last'.threw
              /\ bodies' = bodies
              /\ c = Vec(Div(s[1], s[3]), Div(s[2], s[3]))
              /\ (IsFinite(c.x) /\ IsFinite(c.y)) =>
                     C13_Moment(bodies, Len(bodies), c) = ZeroVec
              /\ (/\ Len(bodies) = 2
                  /\ bodies[1].mass = One /\ bodies[1].position = Vec(Num(0), Num(0))
                  /\ bodies[2].mass = One /\ bodies[2].position = Vec(Num(10), Num(0)))
                     => c = Vec(Num(5), Num(0))]_vars

\* centerOfMass() has returned the center of two bodies of different masses,
\* which is not the midpoint of their positions
C13_Witness ==
    /\ last.op = "centerOfMass" /\ ~last.threw /\ Len(bodies) = 2
    /\ bodies[1].mass # bodies[2].mass
    /\ bodies[1].position # bodies[2].position
    /\ IsFinite(last.ret[1].x) /\ IsFinite(last.ret[1].y)
    /\ last.ret[1] # Vec(Mul(Half, Add(bodies[1].position.x, bodies[2].position.x)),
                         Mul(Half, Add(bodies[1].position.y, bodies[2].position.y)))

(* C14: a tick of no steps (loop() with speed 0, loopUpdate(0)) starts no   *)
(* updateSimulation() call and leaves every body, position, momentum and    *)
(* trail, as it was.                                                        *)
C14_ZeroSteps ==
    /\ [][(queue = <<>> /\ speed = 0 /\ last'.op = "loop") =>
             (bodies' = bodies /\ queue' = <<>> /\ tasks' = <<>> /\ steps' = steps)]_vars
    /\ []((TickDone /\ tick.n = 0) =>
             (bodies = tick.start /\ bodies = LoopUpdate(tick.start, 0)))

\* loop() has run with speed 0 on two bodies that a step would have accelerated
\* and moved, one of which has a trail
C14_Witness ==
    /\ TickDone /\ tick.n = 0 /\ speed = 0 /\ Len(bodies) = 2
    /\ UpdateValues(bodies)[1].momentum # bodies[1].momentum
    /\ UpdateValues(bodies)[1].position # bodies[1].position
    /\ bodies[1].trailLength = 1 /\ bodies[1].trail # <<>>
    /\ steps > 0

(* C15: setColor(i) throws when i < 0 or i >= 15 and setTrailThickness(px)  *)
(* throws when px <= 0 or px > mass * 10, and only then; a call that throws *)
(* leaves the body as it was, and one that does not changes colorIndex,     *)
(* respectively trailThickness, to its argument and nothing else.           *)
C15_Setters ==
    [][/\ last'.op = "setColor" =>
            LET k == last'.arg[1]
                i == last'.arg[2]
            IN  /\ last'.threw <=> (i < 0 \/ i > 14)
                /\ last'.threw => bodies' = bodies
                /\ ~last'.threw => bodies' = [bodies EXCEPT ![k].colorIndex = i]
       /\ last'.op = "setTrailThickness" =>
            LET k == last'.arg[1]
                px == last'.arg[2]
                mass == bodies[k].mass
            IN  /\ last'.threw <=>
                      (px[1] <= 0 \/ px[1] * mass[2] > 10 * mass[1] * px[2])
                /\ last'.threw => bodies' = bodies
                /\ ~last'.threw => bodies' = [bodies EXCEPT ![k].trailThickness = px]]_vars

\* setTrailThickness(6) has thrown on a body of mass 0.5 that has a trail and
\* a color and a thickness set before
C15_Witness ==
    /\ last.op = "setTrailThickness" /\ last.threw /\ last.arg[2] = Num(6)
    /\ bodies[last.arg[1]].mass = Half
    /\ bodies[last.arg[1]].trail # <<>>
    /\ bodies[last.arg[1]].colorIndex = 14
    /\ bodies[last.arg[1]].trailThickness = Num(5)

(* C16: a.difference(b) is (b.x - a.x, b.y - a.y), the negation of          *)
(* b.difference(a); a.distance(b) is the square root of the sum of the      *)
(* squares of those two numbers and equals b.distance(a); neither call      *)
(* changes a or b.                                                          *)
C16_DifferenceAndDistance ==
    [][LET a == bodies[last'.arg[1]].position
           b == bodies[last'.arg[2]].position
           dx == b.x[1] * a.x[2] - a.x[1] * b.x[2]
           dy == b.y[1] * a.y[2] - a.y[1] * b.y[2]
       IN  /\ last'.op = "difference" =>
                /\ last'.ret[1] = Vec(Norm(dx, a.x[2] * b.x[2]), Norm(dy, a.y[2] * b.y[2]))
                /\ last'.ret[1] = Vec(Neg(Difference(b, a).x), Neg(Difference(b, a).y))
                /\ bodies' = bodies
           /\ last'.op = "distance" =>
                /\ Square(last'.ret[1]) =
                       Norm(dx * dx * (a.y[2] * b.y[2]) * (a.y[2] * b.y[2])
                              + dy * dy * (a.x[2] * b.x[2]) * (a.x[2] * b.x[2]),
                            (a.x[2] * b.x[2]) * (a.x[2] * b.x[2])
                              * (a.y[2] * b.y[2]) * (a.y[2] * b.y[2]))
                /\ last'.ret[1] = Distance(b, a)
                /\ bodies' = bodies]_vars

\* a.difference(b) has returned (7, -4) for a = (-5, 7) and b = (2, 3)
C16_Witness ==
    /\ last.op = "difference" /\ last.arg = <<1, 2>>
    /\ bodies[1].position = Vec(Num(-5), Num(7))
    /\ bodies[2].position = Vec(Num(2), Num(3))
    /\ last.ret = <<Vec(Num(7), Num(-4))>>

\* the ordered pairs (i, j), i # j, of 1..n, each once: the k-th of the n * (n - 1)
C17_Pairs(n) ==
    [k \in 1..(n * (n - 1)) |->
        LET i == ((k - 1) \div (n - 1)) + 1
            r == ((k - 1) % (n - 1)) + 1
        IN  <<i, IF r < i THEN r ELSE r + 1>>]

\* the place of the pair a task is at among them
C17_Index(task, n) == CHOOSE k \in 1..(n * (n - 1)) : C17_Pairs(n)[k] = <<task.i, task.j>>

(* C17: the adjustVector calls of one step over n bodies are the ordered    *)
(* pairs (i, j), i # j, each once and n * (n - 1) in all: the step starts   *)
(* with the first pair, goes from each pair to the next, leaves the         *)
(* accumulation phase only after the last, and never pairs a body with      *)
(* itself; the loops of updateValues make the same calls.                   *)
C17_EachOrderedPairOnce ==
    /\ [](\A t \in 1..Len(tasks) :
            tasks[t].pc \in Accumulating =>
                /\ tasks[t].i # tasks[t].j
                /\ \E k \in 1..(Len(bodies) * (Len(bodies) - 1)) :
                      C17_Pairs(Len(bodies))[k] = <<tasks[t].i, tasks[t].j>>)
    /\ [](UpdateValuesCalls(1, 1, Len(bodies)) = C17_Pairs(Len(bodies)))
    /\ [][\A t \in 1..Len(tasks') :
             LET n == Len(bodies)
             IN  /\ (tasks = <<>> /\ tasks'[t].pc = "dist") => C17_Index(tasks'[t], n) = 1
                 /\ (tasks = <<>> /\ tasks'[t].pc = "vecdone") => n * (n - 1) = 0
                 /\ (tasks # <<>> /\ tasks[t].pc = "next" /\ tasks'[t].pc = "dist") =>
                        C17_Index(tasks'[t], n) = C17_Index(tasks[t], n) + 1
                 /\ (tasks # <<>> /\ tasks[t].pc = "next" /\ tasks'[t].pc = "vecdone") =>
                        C17_Index(tasks[t], n) = n * (n - 1)
                 /\ (tasks # <<>> /\ tasks[t].pc = "next") =>
                        tasks'[t].pc \in {"next", "dist", "vecdone"}
                 /\ (tasks # <<>> /\ tasks[t].pc \in Accumulating \ {"next"}) =>
                        (tasks'[t].i = tasks[t].i /\ tasks'[t].j = tasks[t].j
                           /\ tasks'[t].pc \in Accumulating)]_vars

\* the last adjustVector call of a step over two bodies has returned: both
\* momenta have been updated
C17_Witness ==
    /\ Len(bodies) = 2 /\ Len(tasks) = 1
    /\ tasks[1].pc = "next" /\ tasks[1].i = 2 /\ tasks[1].j = 1
    /\ bodies[1].momentum # tick.start[1].momentum
    /\ bodies[2].momentum # tick.start[2].momentum

(* C18: once stop() has returned (toggle() having stopped the animation     *)
(* included), loop() does not run again before another call from outside.   *)
C18_NoLoopAfterStop ==
    [][(last.op \in {"stop", "toggle"} /\ ~isRunning) => last'.op # "loop"]_vars

(* C19: when the steps a tick of loop() has started have all run to their   *)
(* end, what that loop() drew, the bodies' circles and the center of mass,  *)
(* is what the bodies are then: it was read after the steps.                *)
C19_DrawnAfterSteps ==
    (TickDone /\ tick.n >= 1) => last.ret = Draw(bodies)

(* C20: at most one loop() callback is waiting for an animation frame at    *)
(* any time.                                                                *)
C20_OneCallbackPending ==
    Cardinality(callbacks) <= 1

RECURSIVE C21_Total(_, _)
\* the component-wise sum of the momenta of the bodies 1..k
C21_Total(bs, k) ==
    IF k = 0 THEN ZeroVec
    ELSE LET rest == C21_Total(bs, k - 1)
         IN  Vec(Add(rest.x, bs[k].momentum.x), Add(rest.y, bs[k].momentum.y))

\* the bodies are at finite, pairwise distinct positions with finite momenta
C21_Distinct(bs) ==
    /\ \A k \in 1..Len(bs) :
          /\ IsFinite(bs[k].position.x) /\ IsFinite(bs[k].position.y)
          /\ IsFinite(bs[k].momentum.x) /\ IsFinite(bs[k].momentum.y)
    /\ \A i, j \in 1..Len(bs) : i # j => bs[i].position # bs[j].position

\* the change of momentum adjustVector is about to make: c * posDiff
C21_Change(c, posDiff) == Vec(Mul(c, posDiff.x), Mul(c, posDiff.y))

C22_Kept(trail, m) == SubSeq(trail, m + 1, Len(trail))

(* C22: an entry of a trail keeps its coordinates for as long as it is in  *)
(* the trail. A displacement leaves of each trail its newest entries as    *)
(* they were, in order, with at most the body's own position from before    *)
(* the displacement appended, and moves each body by its own momentum,      *)
(* which it leaves alone; every other step leaves every trail and position  *)
(* alone and changes at most one body.                                      *)
C22_EntriesKeepTheirValues ==
    [][\A k \in 1..Len(bodies) :
          LET b == bodies[k]
              a == bodies'[k]
          IN  /\ k <= Len(bodies')
              /\ IF Displaces
                 THEN /\ \E m \in 0..Len(b.trail) :
                            \/ a.trail = C22_Kept(b.trail, m)
                            \/ a.trail = Append(C22_Kept(b.trail, m),
                                                ExportCoordinates(b.position))
                      /\ a.position = AddVector(b.position, b.momentum)
                      /\ a.momentum = b.momentum
                 ELSE /\ a.trail = b.trail
                      /\ a.position = b.position
                      /\ \A o \in 1..Len(bodies) : (o # k /\ a # b) => bodies'[o] = bodies[o]]_vars

\* a step of two bodies has displaced both: the first body's trail has lost its
\* oldest entry, kept the other one and gained the position the step began at,
\* three different places, none of them where the body or the other body is now
C22_Witness ==
    /\ \E t \in 1..Len(tasks) : tasks[t].pc = "posdone"
    /\ Len(bodies) = 2 /\ Len(tick.start) = 2
    /\ Len(tick.start[1].trail) = 2 /\ Len(bodies[1].trail) = 2
    /\ bodies[1].trail[1] = tick.start[1].trail[2]
    /\ bodies[1].trail[1] # tick.start[1].trail[1]
    /\ bodies[1].trail[2] = ExportCoordinates(tick.start[1].position)
    /\ bodies[1].trail[1] # bodies[1].trail[2]
    /\ bodies[2].position # tick.start[2].position
    /\ bodies[1].position # tick.start[1].position
    /\ \A e \in 1..2 : bodies[1].trail[e] \notin {ExportCoordinates(bodies[1].position),
                                                  ExportCoordinates(bodies[2].position)}

=============================================================================
